---- MODULE Spec2Model ----
(***************************************************************************)
(* A model of vak's real-time trigger code:                                *)
(*   - vak/converters.py            json_path_to_trigger_list              *)
(*   - vak/realtime_triggers        TransitionTrigger, print_to_screen     *)
(*   - vak/transforms/functional.py pad_to_window, reshape_to_window       *)
(*                                                                         *)
(* Python strings are sequences of one-character strings, Python dicts are *)
(* functions whose DOMAIN is the set of keys present, Python lists are     *)
(* sequences.  Positions returned by the code are 0-based, as in Python.   *)
(***************************************************************************)
EXTENDS Integers, Sequences, FiniteSets, TLC

VARIABLES
    triggers_json,  \* the parsed JSON document handed to the loader
    load,           \* outcome of json_path_to_trigger_list
    cur_stream,     \* the label stream of the session (list of labels)
    results,        \* per trigger: the result of its latest check
    fired,          \* per trigger: callback invocations during its latest check
    printed,        \* per trigger: what its callback printed during its latest check
    lastOp,         \* the operation that ran last
    arr,            \* windowing: the input array
    window_size,    \* windowing: the window width
    win             \* windowing: stage and intermediate values

vars == <<triggers_json, load, cur_stream, results, fired, printed, lastOp,
          arr, window_size, win>>

loaderVars == <<triggers_json, load>>
engineVars == <<cur_stream, results, fired, printed, lastOp>>
winVars    == <<arr, window_size, win>>

-----------------------------------------------------------------------------
(* Bounds of the model                                                     *)

MaxEntries == 2     \* entries in the "triggers" list of a configuration
MaxStream  == 3     \* labels appended to the stream
MaxHeight  == 2     \* rows of a 2-d array
MaxWidth   == 3     \* columns of an array
MaxWindow  == 3     \* window_size

-----------------------------------------------------------------------------
(* Small helpers over sequences                                            *)

Min(a, b) == IF a < b THEN a ELSE b
Max(a, b) == IF a > b THEN a ELSE b

RECURSIVE Flatten(_)
\* concatenation of a sequence of sequences
Flatten(ss) == IF ss = <<>> THEN <<>> ELSE Head(ss) \o Flatten(Tail(ss))

\* Python's "".join(cur_stream): the labels' characters, one after another
Join(stream) == Flatten(stream)

\* Python's xs[a:b] for a, b >= 0 (indices past the end are clamped)
Slice(xs, a, b) ==
    LET lo == Min(a, Len(xs))
        hi == Min(b, Len(xs))
    IN  IF lo >= hi THEN <<>> ELSE SubSeq(xs, lo + 1, hi)

-----------------------------------------------------------------------------
(* The registries                                                          *)

TRIGGER_TYPES == {"transition"}

\* The action a name resolves to; an action is named by the function it is.
AVAILABLE_ACTIONS == [print_to_screen |-> "fn:print_to_screen"]

-----------------------------------------------------------------------------
(* json_path_to_trigger_list                                               *)

NoError == [kind |-> "none", msg |-> "none", entry |-> 0]
Raise(kind, msg, i) == [kind |-> kind, msg |-> msg, entry |-> i]

\* The checks the first loop makes on entry number i; NoError when it passes.
ValidateEntry(trig, i) ==
    IF ~("type" \in DOMAIN trig) THEN Raise("TypeError", "no_type", i)
    ELSE IF ~(trig["type"] \in TRIGGER_TYPES) THEN Raise("TypeError", "bad_type", i)
    ELSE IF ~("callback" \in DOMAIN trig) THEN Raise("TypeError", "no_callback", i)
    ELSE IF ~(trig["callback"] \in DOMAIN AVAILABLE_ACTIONS)
        THEN Raise("TypeError", "bad_callback", i)
    ELSE IF trig["type"] = "Transition"
        THEN IF ~("from" \in DOMAIN trig) THEN Raise("TypeError", "no_from", i)
             ELSE IF ~("to" \in DOMAIN trig)
                 \* the right operand of "and" reads trig["to"], which is missing
                 THEN Raise("KeyError", "to", i)
                 ELSE NoError
    ELSE NoError

RECURSIVE ValidateFrom(_, _)
\* The first loop, from entry i on: the first error raised, or NoError.
ValidateFrom(entries, i) ==
    IF i > Len(entries) THEN NoError
    ELSE LET e == ValidateEntry(entries[i], i)
         IN  IF e.kind # "none" THEN e ELSE ValidateFrom(entries, i + 1)

\* TransitionTrigger.__init__
TransitionTrigger(callback, from_seg, to_seg) ==
    [callback |-> callback, from_seg |-> from_seg, to_seg |-> to_seg]

RECURSIVE ConstructFrom_prepend(_, _, _)
\* ConstructFrom with each new trigger put at the front of the list
ConstructFrom_prepend(entries, i, trig_list) ==
    IF i > Len(entries) THEN [trig_list |-> trig_list, error |-> NoError]
    ELSE LET trigger_json == entries[i]
         IN  IF trigger_json["type"] = "transition"
             THEN IF ~("from" \in DOMAIN trigger_json)
                      THEN [trig_list |-> trig_list, error |-> Raise("KeyError", "from", i)]
                  ELSE IF ~("to" \in DOMAIN trigger_json)
                      THEN [trig_list |-> trig_list, error |-> Raise("KeyError", "to", i)]
                  ELSE ConstructFrom_prepend(entries, i + 1,
                          <<TransitionTrigger(AVAILABLE_ACTIONS[trigger_json["callback"]],
                                              trigger_json["from"],
                                              trigger_json["to"])>> \o trig_list)
             ELSE ConstructFrom_prepend(entries, i + 1, trig_list)

RECURSIVE ConstructFrom(_, _, _)
\* The second loop, from entry i on, with trig_list built so far:
\* the list at the end and the error that stopped it, if any.
ConstructFrom(entries, i, trig_list) ==
    IF i > Len(entries) THEN [trig_list |-> trig_list, error |-> NoError]
    ELSE LET trigger_json == entries[i]
         IN  IF trigger_json["type"] = "transition"
             THEN IF ~("from" \in DOMAIN trigger_json)
                      THEN [trig_list |-> trig_list, error |-> Raise("KeyError", "from", i)]
                  ELSE IF ~("to" \in DOMAIN trigger_json)
                      THEN [trig_list |-> trig_list, error |-> Raise("KeyError", "to", i)]
                  ELSE ConstructFrom(entries, i + 1,
                          Append(trig_list,
                                 TransitionTrigger(AVAILABLE_ACTIONS[trigger_json["callback"]],
                                                   trigger_json["from"],
                                                   trigger_json["to"])))
             ELSE ConstructFrom(entries, i + 1, trig_list)

RECURSIVE OnePassFrom(_, _, _)
\* A single loop that validates an entry and constructs its trigger at once
OnePassFrom(entries, i, trig_list) ==
    IF i > Len(entries) THEN [trig_list |-> trig_list, error |-> NoError]
    ELSE LET e == ValidateEntry(entries[i], i)
         IN  IF e.kind # "none" THEN [trig_list |-> trig_list, error |-> e]
             ELSE IF ~("from" \in DOMAIN entries[i])
                 THEN [trig_list |-> trig_list, error |-> Raise("KeyError", "from", i)]
             ELSE IF ~("to" \in DOMAIN entries[i])
                 THEN [trig_list |-> trig_list, error |-> Raise("KeyError", "to", i)]
             ELSE OnePassFrom(entries, i + 1,
                     Append(trig_list,
                            TransitionTrigger(AVAILABLE_ACTIONS[entries[i]["callback"]],
                                              entries[i]["from"], entries[i]["to"])))

\* json_path_to_trigger_list with validation and construction interleaved
json_path_to_trigger_list_onepass(json) ==
    IF ~("triggers" \in DOMAIN json)
    THEN [status |-> "raised", trig_list |-> <<>>,
          error |-> Raise("TypeError", "no_triggers", 0), constructed |-> <<>>]
    ELSE LET c == OnePassFrom(json["triggers"], 1, <<>>)
         IN  IF c.error.kind # "none"
             THEN [status |-> "raised", trig_list |-> <<>>,
                   error |-> c.error, constructed |-> c.trig_list]
             ELSE [status |-> "returned", trig_list |-> c.trig_list,
                   error |-> NoError, constructed |-> c.trig_list]

\* The whole function: status, the list returned (when it returns), the
\* error raised (when it raises) and the Trigger objects constructed by then.
json_path_to_trigger_list(json) ==
    IF ~("triggers" \in DOMAIN json)
    THEN [status |-> "raised", trig_list |-> <<>>,
          error |-> Raise("TypeError", "no_triggers", 0), constructed |-> <<>>]
    ELSE LET v == ValidateFrom(json["triggers"], 1)
         IN  IF v.kind # "none"
             THEN [status |-> "raised", trig_list |-> <<>>, error |-> v,
                   constructed |-> <<>>]
             ELSE LET c == ConstructFrom(json["triggers"], 1, <<>>)
                  IN  IF c.error.kind # "none"
                      THEN [status |-> "raised", trig_list |-> <<>>,
                            error |-> c.error, constructed |-> c.trig_list]
                      ELSE [status |-> "returned", trig_list |-> c.trig_list,
                            error |-> NoError, constructed |-> c.trig_list]

-----------------------------------------------------------------------------
(* Regular expressions: the part of the regex language the patterns use.   *)
(* A literal character matches itself, "." matches any character but a     *)
(* newline, "x*" is a greedy repetition, and an unbalanced "(" or a "*"    *)
(* with nothing to repeat makes re.search raise re.error.                  *)

HasSyntaxError(chars) ==
    \E i \in 1..Len(chars) :
        \/ chars[i] = "("
        \/ chars[i] = "*" /\ (i = 1 \/ chars[i - 1] = "*")

RECURSIVE ParseRegex(_, _)
\* the items of a pattern, from character i on
ParseRegex(chars, i) ==
    IF i > Len(chars) THEN <<>>
    ELSE IF i < Len(chars) /\ chars[i + 1] = "*"
        THEN <<[c |-> chars[i], star |-> TRUE]>> \o ParseRegex(chars, i + 2)
        ELSE <<[c |-> chars[i], star |-> FALSE]>> \o ParseRegex(chars, i + 1)

AtomMatches(c, ch) == IF c = "." THEN ch # "\n" ELSE c = ch

RECURSIVE RunLength(_, _, _)
\* how many characters of s, from 0-based position pos on, match atom c
RunLength(c, s, pos) ==
    IF pos < Len(s) /\ AtomMatches(c, s[pos + 1])
    THEN 1 + RunLength(c, s, pos + 1)
    ELSE 0

RECURSIVE MatchEnd(_, _, _, _)
RECURSIVE TryStar(_, _, _, _, _)
\* The end (0-based, exclusive) of the match of items i.. that starts at
\* pos, as a backtracking matcher finds it, or -1 when there is none.
MatchEnd(items, i, s, pos) ==
    IF i > Len(items) THEN pos
    ELSE IF items[i].star
        THEN TryStar(items, i, s, pos, RunLength(items[i].c, s, pos))
    ELSE IF pos < Len(s) /\ AtomMatches(items[i].c, s[pos + 1])
        THEN MatchEnd(items, i + 1, s, pos + 1)
    ELSE -1

\* a greedy repetition: the longest run first, then shorter ones
TryStar(items, i, s, pos, k) ==
    LET e == MatchEnd(items, i + 1, s, pos + k)
    IN  IF e # -1 THEN e
        ELSE IF k = 0 THEN -1
        ELSE TryStar(items, i, s, pos, k - 1)

NoMatchObj == [found |-> FALSE, start |-> 0, end |-> 0]

RECURSIVE SearchFrom(_, _, _)
\* re.search: the match at the leftmost start position that has one
SearchFrom(items, s, start) ==
    IF start > Len(s) THEN NoMatchObj
    ELSE LET e == MatchEnd(items, 1, s, start)
         IN  IF e # -1 THEN [found |-> TRUE, start |-> start, end |-> e]
             ELSE SearchFrom(items, s, start + 1)

re_search(pattern, string) == SearchFrom(ParseRegex(pattern, 1), string, 0)

-----------------------------------------------------------------------------
(* The actions (realtime_triggers/actions.py)                              *)

CONTEXT_SYMBOLS == 10

\* TransitionTrigger.__str__
TriggerStr(trig) == <<"Trigger:", trig.from_seg, "->", trig.to_seg>>

\* print_to_screen that also trims the stream down to what it displays
print_to_screen_trims(trig, stream, match) ==
    LET start == Max(0, match.start - CONTEXT_SYMBOLS)
        end   == Min(Len(stream), match.end + CONTEXT_SYMBOLS)
    IN  [stream |-> Slice(stream, start + 1, end),
         out    |-> [trig        |-> TriggerStr(trig),
                     shown       |-> Slice(stream, start, end),
                     not_printed |-> Len(stream) - CONTEXT_SYMBOLS]]

\* print_to_screen: what it prints, and the stream as it leaves it
print_to_screen(trig, stream, match) ==
    LET start == Max(0, match.start - CONTEXT_SYMBOLS)
        end   == Min(Len(stream), match.end + CONTEXT_SYMBOLS)
    IN  [stream |-> stream,
         out    |-> [trig        |-> TriggerStr(trig),
                     shown       |-> Slice(stream, start, end),
                     not_printed |-> Len(stream) - CONTEXT_SYMBOLS]]

\* calling the action a trigger is bound to
Callback(trig, stream, match) ==
    IF trig.callback = AVAILABLE_ACTIONS["print_to_screen"]
    THEN print_to_screen(trig, stream, match)
    ELSE [stream |-> stream, out |-> <<>>]

-----------------------------------------------------------------------------
(* TransitionTrigger.check_trigger                                         *)

NOT_TRIGGERED == -1

\* check_trigger that searches for from_seg alone
check_trigger_from_only(self, stream) ==
    LET stream_regex == <<".", "*">> \o self.from_seg \o <<".", "*">>
    IN  IF HasSyntaxError(stream_regex)
        THEN [raised |-> TRUE, ret |-> NOT_TRIGGERED, calls |-> 0,
              out |-> <<>>, stream |-> stream]
        ELSE LET m == re_search(stream_regex, Join(stream))
             IN  IF m.found
                 THEN LET cb == Callback(self, stream, m)
                      IN  [raised |-> FALSE, ret |-> m.end, calls |-> 1,
                           out |-> cb.out, stream |-> cb.stream]
                 ELSE [raised |-> FALSE, ret |-> NOT_TRIGGERED, calls |-> 0,
                       out |-> <<>>, stream |-> stream]

\* check_trigger that matches only a transition the stream ends with
check_trigger_at_end(self, stream) ==
    LET stream_regex == <<".", "*">> \o self.from_seg \o self.to_seg
    IN  IF HasSyntaxError(stream_regex)
        THEN [raised |-> TRUE, ret |-> NOT_TRIGGERED, calls |-> 0,
              out |-> <<>>, stream |-> stream]
        ELSE LET m == re_search(stream_regex, Join(stream))
             IN  IF m.found /\ m.end = Len(Join(stream))
                 THEN LET cb == Callback(self, stream, m)
                      IN  [raised |-> FALSE, ret |-> m.end, calls |-> 1,
                           out |-> cb.out, stream |-> cb.stream]
                 ELSE [raised |-> FALSE, ret |-> NOT_TRIGGERED, calls |-> 0,
                       out |-> <<>>, stream |-> stream]

\* check_trigger that returns the match without calling the callback
check_trigger_no_callback(self, stream) ==
    LET stream_regex == <<".", "*">> \o self.from_seg \o self.to_seg \o <<".", "*">>
    IN  IF HasSyntaxError(stream_regex)
        THEN [raised |-> TRUE, ret |-> NOT_TRIGGERED, calls |-> 0,
              out |-> <<>>, stream |-> stream]
        ELSE LET m == re_search(stream_regex, Join(stream))
             IN  IF m.found
                 THEN [raised |-> FALSE, ret |-> m.end, calls |-> 0,
                       out |-> <<>>, stream |-> stream]
                 ELSE [raised |-> FALSE, ret |-> NOT_TRIGGERED, calls |-> 0,
                       out |-> <<>>, stream |-> stream]

\* What a call does: whether it raised, what it returned, how often it
\* called the callback, what that printed and the stream afterwards.
check_trigger(self, stream) ==
    LET stream_regex == <<".", "*">> \o self.from_seg \o self.to_seg \o <<".", "*">>
    IN  IF HasSyntaxError(stream_regex)
        THEN [raised |-> TRUE, ret |-> NOT_TRIGGERED, calls |-> 0,
              out |-> <<>>, stream |-> stream]
        ELSE LET m == re_search(stream_regex, Join(stream))
             IN  IF m.found
                 THEN LET cb == Callback(self, stream, m)
                      IN  [raised |-> FALSE, ret |-> m.end, calls |-> 1,
                           out |-> cb.out, stream |-> cb.stream]
                 ELSE [raised |-> FALSE, ret |-> NOT_TRIGGERED, calls |-> 0,
                       out |-> <<>>, stream |-> stream]

-----------------------------------------------------------------------------
(* The configurations the loader is given                                  *)

Opt(k, V) == {<<>>} \cup {k :> v : v \in V}

TypeValues     == {"transition", "Transition"}
CallbackValues == {"print_to_screen", "beep"}
FromValues     == {<<"A">>, <<"(">>}
ToValues       == {<<>>, <<"B">>}

\* Every combination of "type" and "callback", each present or not; "from"
\* and "to" vary, each present or not, in the entries that name a known
\* type and a known callback, and are both present in the others.
Entries ==
    {t @@ c @@ f @@ o : t \in {"type" :> "transition"},
                        c \in {"callback" :> "print_to_screen"},
                        f \in Opt("from", FromValues),
                        o \in Opt("to", ToValues)}
    \cup
    {t @@ c @@ ("from" :> <<"A">>) @@ ("to" :> <<"B">>) :
        t \in Opt("type", TypeValues), c \in Opt("callback", CallbackValues)}

SeqsUpTo(S, n) == UNION {[1..m -> S] : m \in 0..n}

Configs == {<<>>} \cup {"triggers" :> es : es \in SeqsUpTo(Entries, MaxEntries)}

-----------------------------------------------------------------------------
(* The session: loading, then one update per appended label                *)

\* the labels a model predicts, each a one-character string
Labels == {<<"A">>, <<"B">>, <<"C">>}

NotChecked == [kind |-> "NotChecked", end |-> NOT_TRIGGERED]

\* the MatchResult a call of check_trigger amounts to
ResultOf(r) ==
    IF r.raised THEN [kind |-> "TriggerEvaluationError", end |-> NOT_TRIGGERED]
    ELSE IF r.ret = NOT_TRIGGERED THEN [kind |-> "NoMatch", end |-> NOT_TRIGGERED]
    ELSE [kind |-> "MatchedAt", end |-> r.ret]

RECURSIVE EvaluateFrom(_, _, _, _)
\* One update: every trigger from number i on is checked, in declaration
\* order, against the stream the triggers before it left; a check that
\* raises is recorded for its trigger and the rest are still evaluated.
EvaluateFrom(trig_list, i, stream, acc) ==
    IF i > Len(trig_list) THEN [stream |-> stream, calls |-> acc]
    ELSE LET r == check_trigger(trig_list[i], stream)
         IN  EvaluateFrom(trig_list, i + 1, r.stream, Append(acc, r))

Init ==
    /\ triggers_json \in Configs
    /\ load = [status |-> "pending", trig_list |-> <<>>, error |-> NoError,
               constructed |-> <<>>]
    /\ cur_stream = <<>>
    /\ results = <<>>
    /\ fired = <<>>
    /\ printed = <<>>
    /\ lastOp = "none"
    /\ arr = <<>>
    /\ window_size = 1
    /\ win = [stage |-> "off"]

\* RealtimeConfig converts its "triggers" attribute with the loader
Load ==
    /\ load.status = "pending"
    /\ load' = json_path_to_trigger_list(triggers_json)
    /\ results' = [i \in 1..Len(load'.trig_list) |-> NotChecked]
    /\ fired' = [i \in 1..Len(load'.trig_list) |-> 0]
    /\ printed' = [i \in 1..Len(load'.trig_list) |-> <<>>]
    /\ lastOp' = "load"
    /\ UNCHANGED <<triggers_json, cur_stream, winVars>>

\* a label is appended and every trigger is evaluated
OnNewSymbol(label) ==
    /\ load.status = "returned"
    /\ Len(cur_stream) < MaxStream
    /\ LET e == EvaluateFrom(load.trig_list, 1, Append(cur_stream, label), <<>>)
       IN  /\ cur_stream' = e.stream
           /\ results' = [i \in 1..Len(e.calls) |-> ResultOf(e.calls[i])]
           /\ fired' = [i \in 1..Len(e.calls) |-> e.calls[i].calls]
           /\ printed' = [i \in 1..Len(e.calls) |-> e.calls[i].out]
    /\ lastOp' = "update"
    /\ UNCHANGED <<loaderVars, winVars>>

\* a caller checks one trigger against the stream as it is
Check(i) ==
    /\ load.status = "returned"
    /\ i \in 1..Len(load.trig_list)
    /\ LET r == check_trigger(load.trig_list[i], cur_stream)
       IN  /\ cur_stream' = r.stream
           /\ results' = [results EXCEPT ![i] = ResultOf(r)]
           /\ fired' = [fired EXCEPT ![i] = r.calls]
           /\ printed' = [printed EXCEPT ![i] = r.out]
    /\ lastOp' = "check"
    /\ UNCHANGED <<loaderVars, winVars>>

Next ==
    \/ Load
    \/ \E label \in Labels : OnNewSymbol(label)
    \/ \E i \in 1..MaxEntries : Check(i)

Spec == Init /\ [][Next]_vars

-----------------------------------------------------------------------------
(* Properties of the loader                                                *)

Loaded      == load.status # "pending"
HasTriggers == "triggers" \in DOMAIN triggers_json
Declared    == IF HasTriggers THEN triggers_json["triggers"] ELSE <<>>

IsTransitionEntry(e) == "type" \in DOMAIN e /\ e["type"] = "transition"

\* the loader's validation error: the spec's ConfigError is the TypeError
\* the first loop raises
IsConfigError(err) == err.kind = "TypeError"

LacksFromOrTo(e) ==
    IsTransitionEntry(e) /\ (~("from" \in DOMAIN e) \/ ~("to" \in DOMAIN e))

Complete(e) == DOMAIN e = {"type", "callback", "from", "to"}

\* C1: whenever some "transition" entry lacks "from" or "to", loading fails
\* with the validation pass's configuration error and no Trigger object has
\* been constructed when it fails.  Stated for the case the claim singles
\* out: the incomplete entry is declared after entries that are complete.
C1_AllOrNothingFromTo ==
    (/\ Loaded
     /\ \E i \in 2..Len(Declared) :
            /\ LacksFromOrTo(Declared[i])
            /\ \A j \in 1..(i - 1) : Complete(Declared[j]))
        => /\ load.status = "raised"
           /\ IsConfigError(load.error)
           /\ load.constructed = <<>>

\* what is wrong with an entry's "type" or "callback", type first
TypeCallbackFault(e) ==
    IF ~("type" \in DOMAIN e) THEN "no_type"
    ELSE IF e["type"] # "transition" THEN "bad_type"
    ELSE IF ~("callback" \in DOMAIN e) THEN "no_callback"
    ELSE IF e["callback"] # "print_to_screen" THEN "bad_callback"
    ELSE "none"

FaultyEntries == {i \in 1..Len(Declared) : TypeCallbackFault(Declared[i]) # "none"}

\* C2: a configuration without "triggers", or with an entry whose type or
\* callback is missing or unknown, fails with the configuration error of the
\* first such entry in declaration order (type before callback), and no
\* Trigger object has been constructed, whatever the earlier entries are.
C2_ValidationPrecedesConstruction ==
    Loaded =>
        /\ ~HasTriggers =>
              /\ load.status = "raised"
              /\ load.error = [kind |-> "TypeError", msg |-> "no_triggers", entry |-> 0]
              /\ load.constructed = <<>>
        /\ FaultyEntries # {} =>
              LET first == CHOOSE i \in FaultyEntries : \A j \in FaultyEntries : i <= j
              IN  /\ load.status = "raised"
                  /\ IsConfigError(load.error)
                  /\ load.error.entry = first
                  /\ load.error.msg = TypeCallbackFault(Declared[first])
                  /\ load.constructed = <<>>

\* a fault in the second entry, after a first entry that is complete
C2_Witness ==
    /\ Loaded
    /\ Len(Declared) = 2
    /\ TypeCallbackFault(Declared[1]) = "none"
    /\ DOMAIN Declared[1] = {"type", "callback", "from", "to"}
    /\ TypeCallbackFault(Declared[2]) = "bad_callback"
    /\ load.error.entry = 2

\* a valid configuration in the sense of the loader's contract
ValidEntry(e) ==
    /\ TypeCallbackFault(e) = "none"
    /\ "from" \in DOMAIN e
    /\ "to" \in DOMAIN e
    /\ e["to"] # <<>>

ValidConfig == HasTriggers /\ \A i \in 1..Len(Declared) : ValidEntry(Declared[i])

\* C3: a valid configuration loads into a list with one trigger per
\* "transition" entry, the i-th trigger carrying the i-th entry's from and
\* to patterns and the registry's action for its callback name.
C3_LoadPreservesEntries ==
    (Loaded /\ ValidConfig) =>
        /\ load.status = "returned"
        /\ Len(load.trig_list) =
              Cardinality({i \in 1..Len(Declared) : IsTransitionEntry(Declared[i])})
        /\ \A i \in 1..Len(Declared) :
              /\ i \in DOMAIN load.trig_list
              /\ load.trig_list[i].from_seg = Declared[i]["from"]
              /\ load.trig_list[i].to_seg = Declared[i]["to"]
              /\ load.trig_list[i].callback = AVAILABLE_ACTIONS[Declared[i]["callback"]]
              /\ load.trig_list[i].callback \in {AVAILABLE_ACTIONS[n] : n \in DOMAIN AVAILABLE_ACTIONS}

\* two different valid entries, loaded
C3_Witness ==
    /\ load.status = "returned"
    /\ ValidConfig
    /\ Len(Declared) = 2
    /\ Declared[1] # Declared[2]
    /\ Len(load.trig_list) = 2

\* C7: a "transition" entry whose "to" is present and empty is rejected with
\* the configuration error, so no loaded trigger has an empty to pattern.
\* Stated for configurations whose entries all have their four fields.
C7_EmptyToRejected ==
    (/\ Loaded
     /\ \A i \in 1..Len(Declared) : Complete(Declared[i])
     /\ \E i \in 1..Len(Declared) :
            IsTransitionEntry(Declared[i]) /\ Declared[i]["to"] = <<>>)
        => /\ load.status = "raised"
           /\ IsConfigError(load.error)
           /\ \A i \in 1..Len(load.trig_list) : load.trig_list[i].to_seg # <<>>

-----------------------------------------------------------------------------
(* Properties of the triggers                                              *)

Triggers == load.trig_list

\* the transition a trigger watches for, as a sequence of characters
Transition(trig) == trig.from_seg \o trig.to_seg

\* the patterns of the model are literal characters, or malformed
WellFormed(trig) == \A k \in 1..Len(Transition(trig)) : Transition(trig)[k] # "("

\* the transition occupies the 0-based positions p .. p + length - 1 of s
OccursAt(trig, s, p) ==
    /\ p + Len(Transition(trig)) <= Len(s)
    /\ \A k \in 1..Len(Transition(trig)) : s[p + k] = Transition(trig)[k]

Occurrences(trig, s) == {p \in 0..Len(s) : OccursAt(trig, s, p)}

Contains(trig, stream) == Occurrences(trig, Join(stream)) # {}

\* C4: a check returns NoMatch exactly when the stream has no occurrence of
\* from immediately followed by to, and otherwise the position right after
\* an occurrence.  Stated for triggers whose to pattern is not empty.
C4_CheckReportsMatchEnd ==
    \A i \in 1..Len(results) :
        (/\ results[i].kind \in {"NoMatch", "MatchedAt"}
         /\ Triggers[i].to_seg # <<>>)
            => /\ results[i].kind = "NoMatch" <=> ~Contains(Triggers[i], cur_stream)
               /\ results[i].kind = "MatchedAt" =>
                     \E p \in Occurrences(Triggers[i], Join(cur_stream)) :
                         results[i].end = p + Len(Transition(Triggers[i]))

\* C5: in an update, a trigger's action is not invoked while the stream
\* does not contain the transition, and is invoked exactly once in the
\* update after which the stream contains it for the first time.
C5_FiresOnceWhenFirstContained ==
    [][lastOp' = "update" =>
          \A i \in 1..Len(Triggers) :
              WellFormed(Triggers[i]) =>
                  /\ ~Contains(Triggers[i], cur_stream') => fired'[i] = 0
                  /\ (~Contains(Triggers[i], cur_stream)
                        /\ Contains(Triggers[i], cur_stream')) => fired'[i] = 1]_vars

\* the third label completes the first occurrence of from followed by to
C5_Witness ==
    /\ lastOp = "update"
    /\ Len(cur_stream) = 3
    /\ \E i \in 1..Len(Triggers) :
          /\ WellFormed(Triggers[i])
          /\ Triggers[i].to_seg # <<>>
          /\ Occurrences(Triggers[i], Join(cur_stream)) = {1}
          /\ fired[i] = 1

C9_CheckIdempotent ==
    [][lastOp' = "check" =>
          /\ cur_stream' = cur_stream
          /\ \A i \in 1..Len(results) :
                results[i].kind # "NotChecked" => results'[i] = results[i]]_vars

\* a check, after the update's, that matched and invoked the action
C9_Witness ==
    /\ lastOp = "check"
    /\ cur_stream # <<>>
    /\ \E i \in 1..Len(results) : results[i].kind = "MatchedAt" /\ fired[i] = 1

\* C10: once a trigger has matched, every later update matches again and
\* invokes its action exactly once.
C10_RefiresOnEveryUpdate ==
    [][lastOp' = "update" =>
          \A i \in 1..Len(results) :
              results[i].kind = "MatchedAt" =>
                  (results'[i].kind = "MatchedAt" /\ fired'[i] = 1)]_vars

\* the transition was complete before the last label, and the update fired
C10_Witness ==
    /\ lastOp = "update"
    /\ Len(cur_stream) = 3
    /\ \E i \in 1..Len(Triggers) :
          /\ Triggers[i].to_seg # <<>>
          /\ Occurrences(Triggers[i], Join(cur_stream)) = {0}
          /\ results[i].kind = "MatchedAt"
          /\ fired[i] = 1

-----------------------------------------------------------------------------
(* The windowing transforms (transforms/functional.py)                     *)
(* An array is its number of dimensions and its data: a sequence of        *)
(* numbers (1-d), of rows (2-d) or of 2-d blocks (3-d).                    *)

Array(ndim, data) == [ndim |-> ndim, data |-> data]

\* np.ceil(width / window_size) for positive integers
CeilDiv(width, k) == IF width % k = 0 THEN width \div k ELSE (width \div k) + 1

\* the elements of an array in row-major order, as numpy stores them
Ravel(a) ==
    IF a.ndim = 1 THEN a.data
    ELSE IF a.ndim = 2 THEN Flatten(a.data)
    ELSE Flatten([i \in 1..Len(a.data) |-> Flatten(a.data[i])])

pad_to_window(a, k, padval, return_padding_mask) ==
    IF a.ndim \notin {1, 2}
    THEN [status |-> "ValueError"]
    ELSE LET width        == IF a.ndim = 1 THEN Len(a.data) ELSE Len(a.data[1])
             target_width == CeilDiv(width, k) * k
             padRow(row)  == [c \in 1..target_width |->
                                 IF c <= width THEN row[c] ELSE padval]
             padded       == IF a.ndim = 1
                             THEN Array(1, padRow(a.data))
                             ELSE Array(2, [h \in 1..Len(a.data) |-> padRow(a.data[h])])
         IN  IF return_padding_mask
             THEN [status |-> "ok", padded |-> padded, has_mask |-> TRUE,
                   padding_mask |-> [c \in 1..target_width |-> c <= width]]
             ELSE [status |-> "ok", padded |-> padded, has_mask |-> FALSE,
                   padding_mask |-> <<>>]

\* numpy's reshape of the row-major elements into rows of `inner` elements
\* grouped `outer` rows to a block; the leading dimension (-1) is inferred
Regroup(flat, outer, inner) ==
    [i \in 1..(Len(flat) \div (outer * inner)) |->
        [h \in 1..outer |->
            [j \in 1..inner |-> flat[(i - 1) * outer * inner + (h - 1) * inner + j]]]]

reshape_to_window(a, k) ==
    IF a.ndim = 1
    THEN IF Len(a.data) % k # 0 \/ Len(a.data) = 0
         THEN [status |-> "ValueError"]
         ELSE [status |-> "ok", ndim |-> 2,
               \* shape (-1, window_size)
               windows |-> [i \in 1..(Len(a.data) \div k) |->
                               [j \in 1..k |-> a.data[(i - 1) * k + j]]]]
    ELSE IF a.ndim = 2
    THEN LET height == Len(a.data)
             flat   == Ravel(a)
         IN  IF Len(flat) % (height * k) # 0 \/ Len(flat) = 0
             THEN [status |-> "ValueError"]
             ELSE [status |-> "ok", ndim |-> 3,
                   \* shape (-1, height, window_size)
                   windows |-> Regroup(flat, height, k)]
    ELSE [status |-> "ValueError"]

\* the arrays the transforms are given
Values == {1, 2}
PadValues == {0, 2}

Arrays ==
    {Array(1, d) : d \in UNION {[1..w -> Values] : w \in 1..MaxWidth}}
    \cup
    {Array(2, d) : d \in UNION {[1..h -> [1..w -> Values]] :
                                   h \in 1..MaxHeight, w \in 1..MaxWidth}}
    \cup
    {Array(3, <<<<<<1, 2>>>>>>)}

InitWin ==
    /\ triggers_json = <<>>
    /\ load = [status |-> "pending", trig_list |-> <<>>, error |-> NoError,
               constructed |-> <<>>]
    /\ cur_stream = <<>>
    /\ results = <<>>
    /\ fired = <<>>
    /\ printed = <<>>
    /\ lastOp = "none"
    /\ arr \in Arrays
    /\ window_size \in 1..MaxWindow
    /\ win = [stage |-> "input"]

\* the input is padded to a multiple of the window width
PadToWindow(padval, return_padding_mask) ==
    /\ win.stage = "input"
    /\ LET r == pad_to_window(arr, window_size, padval, return_padding_mask)
       IN  win' = IF r.status = "ok"
                  THEN [stage |-> "padded", padded |-> r.padded,
                        has_mask |-> r.has_mask, padding_mask |-> r.padding_mask]
                  ELSE [stage |-> "raised", error |-> r.status]
    /\ UNCHANGED <<loaderVars, engineVars, arr, window_size>>

\* the padded array is cut into windows
ReshapeToWindow ==
    /\ win.stage = "padded"
    /\ LET r == reshape_to_window(win.padded, window_size)
       IN  win' = IF r.status = "ok"
                  THEN [stage |-> "windowed", padded |-> win.padded,
                        has_mask |-> win.has_mask, padding_mask |-> win.padding_mask,
                        ndim |-> r.ndim, windows |-> r.windows]
                  ELSE [stage |-> "raised", error |-> r.status]
    /\ UNCHANGED <<loaderVars, engineVars, arr, window_size>>

\* the input is cut into windows as it is, without padding
ReshapeUnpadded ==
    /\ win.stage = "input"
    /\ LET r == reshape_to_window(arr, window_size)
       IN  win' = IF r.status = "ok"
                  THEN [stage |-> "windowed", padded |-> arr,
                        has_mask |-> FALSE, padding_mask |-> <<>>,
                        ndim |-> r.ndim, windows |-> r.windows]
                  ELSE [stage |-> "raised", error |-> r.status]
    /\ UNCHANGED <<loaderVars, engineVars, arr, window_size>>

NextWin ==
    \/ \E padval \in PadValues, m \in BOOLEAN : PadToWindow(padval, m)
    \/ ReshapeToWindow
    \/ ReshapeUnpadded

SpecWin == InitWin /\ [][NextWin]_vars

-----------------------------------------------------------------------------
(* Properties of the windowing transforms                                  *)

Width(a) == IF a.ndim = 1 THEN Len(a.data) ELSE Len(a.data[1])

\* the positions of xs that the mask keeps, in order
RECURSIVE CropFrom(_, _, _)
CropFrom(xs, mask, c) ==
    IF c > Len(xs) THEN <<>>
    ELSE (IF mask[c] THEN <<xs[c]>> ELSE <<>>) \o CropFrom(xs, mask, c + 1)

\* band h of the windows laid one after another along the time axis
BandOverTime(windows, h) == Flatten([i \in 1..Len(windows) |-> windows[i][h]])

\* C8: padding and then reshaping gives ceil(W/k) windows and a mask of
\* ceil(W/k)*k positions that is true on the first W exactly; the windows,
\* laid one after another along time and cropped by the mask, are the
\* original W columns, in every band of a 2-d input.
C8_PadReshapeRoundTrip ==
    (win.stage = "windowed" /\ win.has_mask /\ arr.ndim \in {1, 2}) =>
        LET n == CeilDiv(Width(arr), window_size)
        IN  /\ Len(win.windows) = n
            /\ Len(win.padding_mask) = n * window_size
            /\ \A c \in 1..Len(win.padding_mask) :
                  win.padding_mask[c] <=> c <= Width(arr)
            /\ IF arr.ndim = 1
               THEN CropFrom(Flatten(win.windows), win.padding_mask, 1) = arr.data
               ELSE \A h \in 1..Len(arr.data) :
                       CropFrom(BandOverTime(win.windows, h), win.padding_mask, 1)
                           = arr.data[h]

\* C11: the windows of a reshaped array are its columns grouped k at a time:
\* there are n of them, each of shape (H, k) for a 2-d array of shape
\* (H, n*k), with windows[i][h][j] = arr[h][i*k + j]; for a 1-d array of
\* length n*k, windows[i][j] = arr[i*k + j]  (indices from 0).
C11_WindowsAreConsecutiveColumns ==
    win.stage = "windowed" =>
        LET a == win.padded
            k == window_size
            n == Width(a) \div k
        IN  /\ Len(win.windows) = n
            /\ IF a.ndim = 1
               THEN \A i \in 1..n :
                       /\ Len(win.windows[i]) = k
                       /\ \A j \in 1..k : win.windows[i][j] = a.data[(i - 1) * k + j]
               ELSE \A i \in 1..n :
                       /\ Len(win.windows[i]) = Len(a.data)
                       /\ \A h \in 1..Len(a.data) :
                             /\ Len(win.windows[i][h]) = k
                             /\ \A j \in 1..k :
                                   win.windows[i][h][j] = a.data[h][(i - 1) * k + j]

-----------------------------------------------------------------------------
(* A long session: one trigger, A -> B, and a stream that holds the        *)
(* transition once, with up to MaxContext other labels on either side      *)

MaxContext == 12    \* labels before, and after, the transition

ScreenConfig ==
    "triggers" :> <<("type" :> "transition") @@ ("callback" :> "print_to_screen")
                    @@ ("from" :> <<"A">>) @@ ("to" :> <<"B">>)>>

Repeat(x, n) == [i \in 1..n |-> x]

\* C...C, C...C A and C...C A B C...C
ScreenStreams ==
    {Repeat(<<"C">>, a) : a \in 0..MaxContext}
    \cup {Repeat(<<"C">>, a) \o <<<<"A">>>> : a \in 0..MaxContext}
    \cup {Repeat(<<"C">>, a) \o <<<<"A">>, <<"B">>>> \o Repeat(<<"C">>, b) :
             a \in 0..MaxContext, b \in 0..MaxContext}

InitScreen ==
    /\ triggers_json = ScreenConfig
    /\ load = [status |-> "pending", trig_list |-> <<>>, error |-> NoError,
               constructed |-> <<>>]
    /\ cur_stream = <<>>
    /\ results = <<>>
    /\ fired = <<>>
    /\ printed = <<>>
    /\ lastOp = "none"
    /\ arr = <<>>
    /\ window_size = 1
    /\ win = [stage |-> "off"]

\* a label is appended and every trigger is evaluated
OnNewSymbolLong(label) ==
    /\ load.status = "returned"
    /\ Append(cur_stream, label) \in ScreenStreams
    /\ LET e == EvaluateFrom(load.trig_list, 1, Append(cur_stream, label), <<>>)
       IN  /\ cur_stream' = e.stream
           /\ results' = [i \in 1..Len(e.calls) |-> ResultOf(e.calls[i])]
           /\ fired' = [i \in 1..Len(e.calls) |-> e.calls[i].calls]
           /\ printed' = [i \in 1..Len(e.calls) |-> e.calls[i].out]
    /\ lastOp' = "update"
    /\ UNCHANGED <<loaderVars, winVars>>

NextScreen ==
    \/ Load
    \/ \E label \in Labels : OnNewSymbolLong(label)
    \/ \E i \in 1..MaxEntries : Check(i)

SpecScreen == InitScreen /\ [][NextScreen]_vars

\* the part of the stream within CONTEXT_SYMBOLS positions of the
\* occurrence of the transition that starts at position p (0-based)
WindowStart(trig, stream, p) == Max(0, p - CONTEXT_SYMBOLS)
WindowEnd(trig, stream, p) ==
    Min(Len(stream), p + Len(Transition(trig)) + CONTEXT_SYMBOLS)

\* C12: when a check invokes print_to_screen, it displays exactly the labels
\* from 10 positions before the start of the matched from+to to 10
\* positions after its end, clamped to the stream, and the count it reports
\* is the number of labels outside that window, never negative.
C12_PrintsWindowAroundMatch ==
    \A i \in 1..Len(fired) :
        (fired[i] = 1 /\ results[i].kind = "MatchedAt") =>
            \E p \in Occurrences(Triggers[i], Join(cur_stream)) :
                LET lo == WindowStart(Triggers[i], cur_stream, p)
                    hi == WindowEnd(Triggers[i], cur_stream, p)
                IN  /\ printed[i].shown = Slice(cur_stream, lo, hi)
                    /\ printed[i].not_printed = Len(cur_stream) - (hi - lo)
                    /\ printed[i].not_printed >= 0

====
